---------------------------- MODULE Spec2Model ----------------------------
(***************************************************************************)
(* A model of kiesraad/parse_eml.py: the conversion of Dutch election      *)
(* results in EML format (as parsed by xmltodict) into tables.             *)
(*                                                                         *)
(* Python values are modelled as tagged records:                           *)
(*   None            [t |-> "None"]                                        *)
(*   a str           [t |-> "str",  s  |-> <<token, ...>>]                 *)
(*   an int          [t |-> "int",  n  |-> 50]                             *)
(*   a dict          [t |-> "dict", kv |-> << <<key, value>>, ... >>]      *)
(*   a list          [t |-> "list", l  |-> <<value, ...>>]                 *)
(* A str is a sequence of tokens (runs of characters); every str of the    *)
(* model has one tokenisation only, so equality of token sequences is      *)
(* equality of the strings.  A dict keeps its keys in insertion order, as  *)
(* Python does; its keys are strs (token sequences).                       *)
(*                                                                         *)
(* An expression that may raise evaluates to [ok |-> TRUE, v |-> value]    *)
(* or to [ok |-> FALSE, exc |-> "KeyError"].                               *)
(***************************************************************************)
EXTENDS Naturals, Sequences, FiniteSets, TLC

VARIABLES
    data,           \* parse_election_data: its argument `data`
    per_candidate,  \* the flag per_candidate of the call under study
    result,         \* parse_election_data: what the call returned or raised
    paths,          \* process_files: the files source.glob found
    pf_i,           \* process_files: index of the next path of the loop
    pf_pc,          \* process_files: "loop", "returned" or "raised"
    pf_exc,         \* process_files: the exception that left it, if any
    dfs,            \* process_files: the dictionary of tables built so far
    cl_paths,       \* create_candidate_list: the candidate-list files
    cl_i,           \* create_candidate_list: index of the next path
    cl_pc,          \* create_candidate_list: "loop", "returned" or "raised"
    cl_exc,         \* create_candidate_list: the exception that left it
    rows            \* create_candidate_list: the roster accumulator

vars == <<data, per_candidate, result, paths, pf_i, pf_pc, pf_exc, dfs,
          cl_paths, cl_i, cl_pc, cl_exc, rows>>

---------------------------------------------------------------------------
(* Python values *)

None == [t |-> "None"]
S(tokens) == [t |-> "str", s |-> tokens]
K(token) == <<token>>
Str(token) == S(K(token))
I(n) == [t |-> "int", n |-> n]
D(kv) == [t |-> "dict", kv |-> kv]
L(l) == [t |-> "list", l |-> l]
Unbound == [t |-> "unbound"]

Ok(v) == [ok |-> TRUE, v |-> v]
Raise(exc) == [ok |-> FALSE, exc |-> exc]

IsNone(x) == x.t = "None"
IsStr(x) == x.t = "str"
IsDict(x) == x.t = "dict"
IsList(x) == x.t = "list"

\* Python's truth value of x
Truthy(x) ==
    CASE x.t = "None" -> FALSE
      [] x.t = "str" -> Len(x.s) > 0
      [] x.t = "dict" -> Len(x.kv) > 0
      [] x.t = "list" -> Len(x.l) > 0
      [] x.t = "int" -> x.n # 0
      [] OTHER -> TRUE

\* the keys of a dict's item sequence, in order
Keys(kv) == [i \in 1..Len(kv) |-> kv[i][1]]

HasKey(kv, k) == \E i \in 1..Len(kv) : kv[i][1] = k

Lookup(kv, k) == kv[CHOOSE i \in 1..Len(kv) : kv[i][1] = k][2]

\* d[k] = v on a dict's item sequence: a present key keeps its position
DictSet(kv, k, v) ==
    IF HasKey(kv, k)
    THEN [i \in 1..Len(kv) |-> IF kv[i][1] = k THEN <<k, v>> ELSE kv[i]]
    ELSE Append(kv, <<k, v>>)

\* x[k] for a str key k
GetItem(x, k) ==
    CASE x.t = "dict" ->
            IF HasKey(x.kv, k) THEN Ok(Lookup(x.kv, k)) ELSE Raise("KeyError")
      [] x.t = "unbound" -> Raise("UnboundLocalError")
      [] OTHER -> Raise("TypeError")

\* x[p[1]][p[2]]...
RECURSIVE GetPath(_, _)
GetPath(x, p) ==
    IF p = <<>> THEN Ok(x)
    ELSE LET r == GetItem(x, p[1]) IN
         IF r.ok THEN GetPath(r.v, Tail(p)) ELSE r

\* k in x
Contains(x, k) ==
    CASE x.t = "dict" -> Ok(HasKey(x.kv, k))
      [] x.t = "list" -> Ok(\E i \in 1..Len(x.l) : x.l[i] = S(k))
      [] x.t = "str" -> Ok(\E i \in 1..Len(x.s) : <<x.s[i]>> = k)
      [] OTHER -> Raise("TypeError")

\* the items `for item in x` visits: a dict gives its keys, a str its parts
Iter(x) ==
    CASE x.t = "list" -> Ok(x.l)
      [] x.t = "dict" -> Ok([i \in 1..Len(x.kv) |-> S(x.kv[i][1])])
      [] x.t = "str" -> Ok([i \in 1..Len(x.s) |-> S(<<x.s[i]>>)])
      [] OTHER -> Raise("TypeError")

\* pd.isnull on a scalar
IsNull(x) == x.t = "None"

---------------------------------------------------------------------------
(* str operations *)

\* whitespace tokens, which str.strip() removes at both ends
IsSpace(tok) == tok \in {" ", "  "}

RECURSIVE LStrip(_)
LStrip(s) == IF s # <<>> /\ IsSpace(Head(s)) THEN LStrip(Tail(s)) ELSE s

RECURSIVE RStrip(_)
RStrip(s) ==
    IF s # <<>> /\ IsSpace(s[Len(s)]) THEN RStrip(SubSeq(s, 1, Len(s) - 1)) ELSE s

Strip(s) == RStrip(LStrip(s))

\* str.lower() of one token
LowerTok(tok) ==
    CASE tok = "Ongeldig" -> "ongeldig"
      [] tok = "Blanco" -> "blanco"
      [] tok = "Geldige Stempassen" -> "geldige stempassen"
      [] tok = "Toegelaten Kiezers" -> "toegelaten kiezers"
      [] tok = "Overig" -> "overig"
      [] OTHER -> tok

\* x.lower()
Lower(x) ==
    IF IsStr(x) THEN Ok(S([i \in 1..Len(x.s) |-> LowerTok(x.s[i])]))
    ELSE Raise("AttributeError")

\* the number a token of digits denotes
TokInt(tok) ==
    CASE tok = "1" -> 1 [] tok = "2" -> 2 [] tok = "7" -> 7 [] tok = "30" -> 30
      [] tok = "48" -> 48 [] tok = "50" -> 50 [] tok = "98" -> 98
      [] tok = "100" -> 100

IsDigits(tok) == tok \in {"1", "2", "7", "30", "48", "50", "98", "100"}

\* int(x)
IntOf(x) ==
    CASE x.t = "int" -> Ok(x)
      [] x.t = "str" ->
            IF Len(x.s) = 1 /\ IsDigits(x.s[1]) THEN Ok(I(TokInt(x.s[1])))
            ELSE Raise("ValueError")
      [] OTHER -> Raise("TypeError")

\* try: r  except excs: default
Catch(r, excs, default) ==
    IF r.ok \/ r.exc \notin excs THEN r ELSE Ok(default)

---------------------------------------------------------------------------
(* extract_postcode *)

\* re.findall(r'(.*?)\(postcode\: (.*?)\)', s): the first "(postcode: " that a
\* ")" follows opens the first match; the first ")" after it closes it
PostcodeOpens(s) ==
    {i \in 1..Len(s) : s[i] = "(postcode: " /\ \E j \in (i+1)..Len(s) : s[j] = ")"}

Min(set) == CHOOSE m \in set : \A n \in set : m <= n

ExtractPostcode(station_name) ==
    IF ~IsStr(station_name) THEN Raise("TypeError")
    ELSE LET s == station_name.s
             opens == PostcodeOpens(s)
         IN  IF opens = {}
             THEN Ok(<<S(Strip(s)), None>>)
             ELSE LET i == Min(opens)
                      j == Min({c \in (i+1)..Len(s) : s[c] = ")"})
                  IN  Ok(<<S(Strip(SubSeq(s, 1, i - 1))), S(SubSeq(s, i + 1, j - 1))>>)

---------------------------------------------------------------------------
(* parse_election_data *)

\* the columns a per-candidate row copies from the station's item
keep ==
    << K("election_id"), K("election_name"), K("election_domain_name"),
       K("election_domain_id"), K("election_date"), K("contest_name"),
       K("managing_authority"), K("station_id"), K("station_name"),
       K("postcode") >>

\* The locals of parse_election_data that its loops read and write:
\* agg (rows_aggregates), cand (rows_per_candidate), row (row_aggregate),
\* party_name and party_id (unbound until a party-level selection is met),
\* and exc: the exception raised ("" while none).
Locals(agg, cand, row, party_name, party_id) ==
    [agg |-> agg, cand |-> cand, row |-> row, party_name |-> party_name,
     party_id |-> party_id, exc |-> ""]

Failed(st, exc) == [st EXCEPT !.exc = exc]

\* lines 181-186: a party-level total goes into the station's aggregate row
PartySelection(st, res) ==
    LET pn0 == GetPath(res, <<K("AffiliationIdentifier"), K("RegisteredName")>>)
        pid == GetPath(res, <<K("AffiliationIdentifier"), K("@Id")>>)
        pn == IF IsNull(pn0.v) THEN pid.v ELSE pn0.v
        vv == GetItem(res, K("ValidVotes"))
        votes == IntOf(vv.v)
    IN  CASE ~pn0.ok -> Failed(st, pn0.exc)
          [] ~pid.ok -> Failed(st, pid.exc)
          [] ~vv.ok -> Failed(st, vv.exc)
          [] ~votes.ok -> Failed(st, votes.exc)
          [] ~IsStr(pn) -> Failed(st, "TypeError")
          [] OTHER -> [st EXCEPT !.row = DictSet(st.row, pn.s, votes.v),
                                 !.party_name = pn, !.party_id = pid.v]

\* lines 188-208: a candidate's votes become a per-candidate row
CandidateSelection(st, res, item) ==
    LET cid == GetPath(res, <<K("Candidate"), K("CandidateIdentifier"), K("@Id")>>)
        vv == GetItem(res, K("ValidVotes"))
        row_cand == [i \in 1..Len(keep) |-> <<keep[i], Lookup(item, keep[i])>>]
                    \o << <<K("party_name"), st.party_name>>,
                          <<K("party_id"), st.party_id>>,
                          <<K("candidate_identifier"), cid.v>>,
                          <<K("votes"), vv.v>> >>
    IN  CASE st.party_name = Unbound -> Failed(st, "UnboundLocalError")
          [] ~cid.ok -> Failed(st, cid.exc)
          [] ~vv.ok -> Failed(st, vv.exc)
          [] OTHER -> [st EXCEPT !.cand = Append(st.cand, row_cand)]

\* a loop body that also copies a party-level total into a per-candidate row
SelectionBodyCopyingTotals(st, res, item, percand) ==
    CASE ~IsDict(res) -> Failed(st, "AttributeError")
      [] HasKey(res.kv, K("AffiliationIdentifier")) ->
            [PartySelection(st, res) EXCEPT
                !.cand = IF percand
                         THEN Append(@, [i \in 1..Len(keep) |->
                                            <<keep[i], Lookup(item, keep[i])>>])
                         ELSE @]
      [] percand -> CandidateSelection(st, res, item)
      [] OTHER -> st

\* one pass of `for result in results` (lines 180-208)
SelectionBody(st, res, item, percand) ==
    CASE ~IsDict(res) -> Failed(st, "AttributeError")
      [] HasKey(res.kv, K("AffiliationIdentifier")) -> PartySelection(st, res)
      [] percand -> CandidateSelection(st, res, item)
      [] OTHER -> st

RECURSIVE SelectionLoop(_, _, _, _)
SelectionLoop(st, results, item, percand) ==
    IF results = <<>> \/ st.exc # "" THEN st
    ELSE SelectionLoop(SelectionBody(st, Head(results), item, percand),
                       Tail(results), item, percand)

\* lines 163-166 and 169-172, on the item `it` (Ok(item) or a Raise):
\* item[prefix + reason['@ReasonCode'].lower()] = reason['#text']
ReasonBody(it, reason, prefix) ==
    LET code == GetItem(reason, K("@ReasonCode"))
        low == Lower(code.v)
        value == GetItem(reason, K("#text"))
    IN  CASE ~code.ok -> code
          [] ~low.ok -> low
          [] ~value.ok -> value
          [] OTHER -> Ok(DictSet(it.v, <<prefix>> \o low.v.s, value.v))

RECURSIVE ReasonLoop(_, _, _)
ReasonLoop(it, reasons, prefix) ==
    IF reasons = <<>> \/ ~it.ok THEN it
    ELSE ReasonLoop(ReasonBody(it, Head(reasons), prefix), Tail(reasons), prefix)

\* `for reason in station[key]` on the item `it`
Reasons(it, station, key, prefix) ==
    LET votes == GetItem(station, K(key))
        reasons == Iter(votes.v)
    IN  CASE ~it.ok -> it
          [] ~votes.ok -> votes
          [] ~reasons.ok -> reasons
          [] OTHER -> ReasonLoop(it, reasons.v, prefix)

\* lines 140-161: the station's item up to total_counted; ident is the item
\* every station starts from
StationIdentity(station, ident) ==
    LET sid == Catch(GetPath(station, <<K("ReportingUnitIdentifier"), K("@Id")>>),
                     {"TypeError"}, None)
        sname == Catch(GetPath(station, <<K("ReportingUnitIdentifier"), K("#text")>>),
                       {"TypeError"}, None)
        np == ExtractPostcode(sname.v)
        cast == GetItem(station, K("Cast"))
        counted == GetItem(station, K("TotalCounted"))
    IN  CASE ~sid.ok -> sid
          [] ~sname.ok -> sname
          [] ~np.ok -> np
          [] ~cast.ok -> cast
          [] ~counted.ok -> counted
          [] OTHER -> Ok(ident \o << <<K("station_id"), sid.v>>,
                                     <<K("station_name"), np.v[1]>>,
                                     <<K("postcode"), np.v[2]>>,
                                     <<K("cast"), cast.v>>,
                                     <<K("total_counted"), counted.v>> >>)

\* lines 167-172: if 'UncountedVotes' in station
Uncounted(it, station) ==
    IF it.ok /\ HasKey(station.kv, K("UncountedVotes"))
    THEN Reasons(it, station, "UncountedVotes", "uncounted_")
    ELSE it

\* lines 140-172: the station's item, Ok(item) or a Raise
StationItem(station, ident) ==
    Uncounted(Reasons(StationIdentity(station, ident), station,
                      "RejectedVotes", "rejected_"),
              station)

\* line 209: rows_aggregates.append(row_aggregate)
AppendRow(st, st1) ==
    IF st1.exc # "" THEN Failed(st, st1.exc)
    ELSE [st1 EXCEPT !.agg = Append(st.agg, st1.row)]

\* lines 173-209: the station's selections, given its item
StationResults(st, station, it, percand) ==
    LET sel == Catch(GetItem(station, K("Selection")), {"TypeError"}, L(<<>>))
        results == Iter(sel.v)
    IN  CASE ~it.ok -> Failed(st, it.exc)
          [] ~sel.ok -> Failed(st, sel.exc)
          [] ~results.ok -> Failed(st, results.exc)
          [] OTHER ->
                AppendRow(st, SelectionLoop([st EXCEPT !.row = it.v], results.v,
                                            it.v, percand))

\* one pass of `for station in stations` (lines 138-209)
StationBody(st, station, ident, percand) ==
    StationResults(st, station, StationItem(station, ident), percand)

RECURSIVE StationLoop(_, _, _, _)
StationLoop(st, stations, ident, percand) ==
    IF stations = <<>> \/ st.exc # "" THEN st
    ELSE StationLoop(StationBody(st, Head(stations), ident, percand),
                     Tail(stations), ident, percand)

\* an election domain whose bare string is taken for the identifier
ElectionDomainAsId(election_identifier) ==
    LET dom == Catch(GetItem(election_identifier, K("kr:ElectionDomain")),
                     {"KeyError"}, None)
        d == dom.v
    IN  CASE ~dom.ok -> dom
          [] Truthy(d) /\ IsStr(d) -> Ok(<<d, None>>)
          [] Truthy(d) /\ IsDict(d) ->
                Ok(<< Catch(GetItem(d, K("@Id")), {"KeyError"}, None).v,
                      Catch(GetItem(d, K("#text")), {"KeyError"}, None).v >>)
          [] OTHER -> Ok(<<None, None>>)

\* lines 88-106: the election domain is absent, a str or a dict;
\* the result is <<election_domain_id, election_domain_name>>
ElectionDomain(election_identifier) ==
    LET dom == Catch(GetItem(election_identifier, K("kr:ElectionDomain")),
                     {"KeyError"}, None)
        d == dom.v
    IN  CASE ~dom.ok -> dom
          [] Truthy(d) /\ IsStr(d) -> Ok(<<None, d>>)
          [] Truthy(d) /\ IsDict(d) ->
                Ok(<< Catch(GetItem(d, K("@Id")), {"KeyError"}, None).v,
                      Catch(GetItem(d, K("#text")), {"KeyError"}, None).v >>)
          [] OTHER -> Ok(<<None, None>>)

\* lines 84-119: what parse_election_data reads before the reporting units:
\* Ok([ident, contest, contest_name, managing_authority]) or a Raise
Header(dat) ==
    LET election == GetPath(dat, <<K("EML"), K("Count"), K("Election")>>)
        ei == GetItem(election.v, K("ElectionIdentifier"))
        election_id == GetItem(ei.v, K("@Id"))
        election_name == GetItem(ei.v, K("ElectionName"))
        dom == ElectionDomain(ei.v)
        election_date == GetItem(ei.v, K("kr:ElectionDate"))
        contest == GetPath(election.v, <<K("Contests"), K("Contest")>>)
        contest_name ==
            Catch(GetPath(contest.v, <<K("ContestIdentifier"), K("ContestName")>>),
                  {"KeyError"}, None)
        managing_authority ==
            Catch(GetPath(dat, <<K("EML"), K("ManagingAuthority"),
                                 K("AuthorityIdentifier"), K("#text")>>),
                  {"KeyError"}, None)
    IN  CASE ~election.ok -> election
          [] ~ei.ok -> ei
          [] ~election_id.ok -> election_id
          [] ~election_name.ok -> election_name
          [] ~dom.ok -> dom
          [] ~election_date.ok -> election_date
          [] ~contest.ok -> contest
          [] ~contest_name.ok -> contest_name
          [] ~managing_authority.ok -> managing_authority
          [] OTHER ->
                Ok([ident |-> << <<K("election_id"), election_id.v>>,
                                 <<K("election_name"), election_name.v>>,
                                 <<K("election_domain_id"), dom.v[1]>>,
                                 <<K("election_domain_name"), dom.v[2]>>,
                                 <<K("election_date"), election_date.v>>,
                                 <<K("contest_name"), contest_name.v>>,
                                 <<K("managing_authority"), managing_authority.v>> >>,
                    contest |-> contest.v,
                    contest_name |-> contest_name.v,
                    managing_authority |-> managing_authority.v])

\* a row of the identity fields alone, without the station fields
NoStationRowsBare(ident) == << ident >>

\* lines 124-134: the one row of a document without ReportingUnitVotes
NoStationRows(ident) ==
    << ident \o << <<K("station_name"), None>>, <<K("station_id"), None>> >> >>

\* line 210: the tuple returned
Returned(st, h) ==
    IF st.exc # "" THEN Raise(st.exc)
    ELSE Ok([t |-> "tuple", rows_aggregates |-> st.agg,
             rows_per_candidate |-> st.cand, contest_name |-> h.contest_name,
             managing_authority |-> h.managing_authority])

\* lines 120-210, given the header h
ParseUnits(h, percand) ==
    LET ruv == GetItem(h.contest, K("ReportingUnitVotes"))
        noUnits == ~ruv.ok /\ ruv.exc = "KeyError"
        stations == IF noUnits THEN <<>>
                    ELSE IF IsList(ruv.v) THEN ruv.v.l ELSE <<ruv.v>>
    IN  IF ~ruv.ok /\ ~noUnits THEN ruv
        ELSE Returned(StationLoop(Locals(IF noUnits THEN NoStationRows(h.ident)
                                         ELSE <<>>,
                                         <<>>, <<>>, Unbound, Unbound),
                                  stations, h.ident, percand),
                      h)

ParseHeaded(h, percand) == IF h.ok THEN ParseUnits(h.v, percand) ELSE h

\* parse_election_data(data, per_candidate): Ok(the value returned) or a Raise
ParseElectionData(dat, percand) ==
    IF IsNull(dat) THEN Ok(L(<<>>)) ELSE ParseHeaded(Header(dat), percand)

---------------------------------------------------------------------------
(* The trees xmltodict.parse builds (read_eml, line 21): an element with     *)
(* attributes is a dict with '@name' keys and its text under '#text', an     *)
(* element with text only is a str, an empty element is None, and the child  *)
(* elements of one tag are a list when there are several and the bare item   *)
(* when there is one.                                                        *)

\* the dict items of the child elements `items` of tag `key`
Field(key, items) ==
    CASE Len(items) = 0 -> <<>>
      [] Len(items) = 1 -> << <<K(key), items[1]>> >>
      [] OTHER -> << <<K(key), L(items)>> >>

\* a dict item that is there when v is not Absent
Absent == [t |-> "absent"]
Opt(key, v) == IF v = Absent THEN <<>> ELSE << <<K(key), v>> >>

MkReason(code, text) ==
    D(<< <<K("@ReasonCode"), Str(code)>>, <<K("#text"), Str(text)>> >>)

MkPartySel(name, id, votes) ==
    D(<< <<K("AffiliationIdentifier"),
           D(<< <<K("@Id"), Str(id)>>, <<K("RegisteredName"), name>> >>)>>,
         <<K("ValidVotes"), Str(votes)>> >>)

MkCandSel(id, votes) ==
    D(<< <<K("Candidate"),
           D(<< <<K("CandidateIdentifier"), D(<< <<K("@Id"), Str(id)>> >>)>> >>)>>,
         <<K("ValidVotes"), Str(votes)>> >>)

MkStation(id, label, cast, counted, rejected, uncounted, selections) ==
    D(<< <<K("ReportingUnitIdentifier"),
           D(<< <<K("@Id"), Str(id)>>, <<K("#text"), S(label)>> >>)>> >>
      \o Field("Selection", selections)
      \o << <<K("Cast"), Str(cast)>>, <<K("TotalCounted"), Str(counted)>> >>
      \o Field("RejectedVotes", rejected)
      \o Field("UncountedVotes", uncounted))

\* a vote-count document (Telling_*.xml); h is its header: name and domain
\* (of the election identifier), contest (the contest's name) and authority,
\* each a value or Absent; units are its ReportingUnitVotes elements
MkCount(h, units) ==
    D(<< <<K("EML"),
           D(Opt("ManagingAuthority",
                 IF h.authority = Absent THEN Absent
                 ELSE D(<< <<K("AuthorityIdentifier"),
                           D(<< <<K("@Id"), Str("0363")>>,
                                <<K("#text"), h.authority>> >>)>> >>))
             \o << <<K("Count"),
                     D(<< <<K("Election"),
                            D(<< <<K("ElectionIdentifier"),
                                   D(<< <<K("@Id"), Str("GR2018")>> >>
                                     \o Opt("ElectionName", h.name)
                                     \o Opt("kr:ElectionDomain", h.domain)
                                     \o << <<K("kr:ElectionDate"),
                                             Str("2018-03-21")>> >>)>>,
                                 <<K("Contests"),
                                   D(<< <<K("Contest"),
                                          D(<< <<K("ContestIdentifier"),
                                                 D(<< <<K("@Id"), Str("geen")>> >>
                                                   \o Opt("ContestName", h.contest))>>,
                                               <<K("TotalVotes"),
                                                 D(<< <<K("Cast"), Str("100")>> >>)>> >>
                                            \o Field("ReportingUnitVotes", units))
                                        >> >>)>> >>)>> >>)>> >>)>> >>)

---------------------------------------------------------------------------
(* The documents parse_election_data is studied on *)

MaxSel == 2
MaxStations == 2

PartyA == MkPartySel(Str("PartyA"), "1", "50")
PartyB == MkPartySel(Str("PartyB"), "2", "48")
PartyNull == MkPartySel(None, "3", "7")
Cand1 == MkCandSel("1", "30")

SeqsUpTo(set, n) == UNION {[1..m -> set] : m \in 0..n}

SelectionSeqs == SeqsUpTo({PartyA, PartyB, PartyNull, Cand1}, MaxSel)

Ongeldig == MkReason("Ongeldig", "2")
Blanco == MkReason("Blanco", "1")
Stempassen == MkReason("Geldige Stempassen", "98")
Kiezers == MkReason("Toegelaten Kiezers", "100")
Overig == MkReason("Overig", "1")

Label1 == <<"Stembureau 1", " ", "(postcode: ", "1234AB", ")">>
Label2 == <<"Stembureau 2">>
Label3 == <<" ", "Stembureau 3", "(postcode: ", "5678 CD", ")", " ">>

RejectedSeqs == {<<Ongeldig>>, <<Ongeldig, Blanco>>, <<Blanco, Overig>>}
UncountedSeqs == {<<>>, <<Kiezers, Stempassen>>}

PlainStation ==
    MkStation("1", Label1, "100", "98", <<Ongeldig, Blanco>>, <<>>, <<PartyA, PartyB>>)
CandStation ==
    MkStation("2", Label2, "100", "98", <<Blanco, Ongeldig>>, <<>>, <<PartyB, Cand1>>)
BareStation == S(<<"Stembureau 4">>)

\* stations that vary in one respect each
Stations ==
    {BareStation}
    \cup {MkStation("5", lab, "100", "98", rej, unc, <<PartyA, PartyB>>) :
            lab \in {Label1, Label2, Label3}, rej \in RejectedSeqs,
            unc \in UncountedSeqs}
    \cup {MkStation("6", Label1, "100", "98", <<Ongeldig, Blanco>>, <<>>, sel) :
            sel \in SelectionSeqs}

FewStations == {PlainStation, CandStation, BareStation}

\* the station sequences of n stations: one of Stations among FewStations
UnitSeqs(n) ==
    {[i \in 1..n |-> IF i = p THEN free ELSE few[i]] :
        p \in 1..n, free \in Stations, few \in [1..n -> FewStations]}

Units == {<<>>} \cup UNION {UnitSeqs(n) : n \in 1..MaxStations}

DomainValues ==
    { Absent, None, S(<<>>), Str("Amsterdam"),
      D(<< <<K("@Id"), Str("0363")>>, <<K("#text"), Str("Amsterdam")>> >>),
      D(<< <<K("@Id"), Str("0363")>> >>),
      D(<< <<K("#text"), Str("Amsterdam")>> >>) }

Headers ==
    [name : {Absent, Str("Gemeenteraad 2018")}, domain : DomainValues,
     contest : {Absent, Str("Amsterdam")}, authority : {Absent, Str("Amsterdam")}]

PlainHeader ==
    [name |-> Str("Gemeenteraad 2018"), domain |-> Str("Amsterdam"),
     contest |-> Absent, authority |-> Str("Amsterdam")]

FewUnits == {<<>>, <<PlainStation>>, <<PlainStation, CandStation>>}

CountDocuments ==
    {MkCount(h, u) : h \in Headers, u \in FewUnits}
    \cup {MkCount(PlainHeader, u) : u \in Units}

---------------------------------------------------------------------------
(* parse_election_data applied to one document *)

Pending == [t |-> "pending"]
Idle == "idle"

InitParse ==
    /\ data \in CountDocuments \cup {None}
    /\ per_candidate \in BOOLEAN
    /\ result = Pending
    /\ paths = <<>> /\ pf_i = 1 /\ pf_pc = Idle /\ pf_exc = "" /\ dfs = <<>>
    /\ cl_paths = <<>> /\ cl_i = 1 /\ cl_pc = Idle /\ cl_exc = "" /\ rows = <<>>

CallParseElectionData ==
    /\ result = Pending
    /\ result' = ParseElectionData(data, per_candidate)
    /\ UNCHANGED <<data, per_candidate, paths, pf_i, pf_pc, pf_exc, dfs,
                   cl_paths, cl_i, cl_pc, cl_exc, rows>>

NextParse == CallParseElectionData

SpecParse == InitParse /\ [][NextParse]_vars

---------------------------------------------------------------------------
(* read_eml and process_files *)

\* A file is [stem, kieskring, decodes, tree]: the path's stem, whether the
\* lower-cased path holds 'kieskring', whether its bytes decode, and the tree
\* xmltodict.parse builds from its contents.

\* read_eml(path): the tree, or None after a UnicodeDecodeError
ReadEml(path) == IF path.decodes THEN path.tree ELSE None

\* line 225: paths = [p for p in paths if 'kieskring' not in str(p).lower()]
RECURSIVE NotKieskring(_)
NotKieskring(ps) ==
    IF ps = <<>> THEN <<>>
    ELSE IF Head(ps).kieskring THEN NotKieskring(Tail(ps))
         ELSE <<Head(ps)>> \o NotKieskring(Tail(ps))

first_cols ==
    << K("contest_name"), K("managing_authority"), K("election_id"),
       K("election_name"), K("election_domain_id"), K("election_domain_name"),
       K("election_date"), K("station_name"), K("station_id"), K("postcode"),
       K("cast"), K("total_counted"),
       <<"rejected_", "blanco">>, <<"rejected_", "ongeldig">>,
       <<"uncounted_", "andere verklaring">>, <<"uncounted_", "geen verklaring">>,
       <<"uncounted_", "geldige kiezerspassen">>,
       <<"uncounted_", "geldige stempassen">>,
       <<"uncounted_", "geldige volmachtbewijzen">>,
       <<"uncounted_", "kwijtgeraakte stembiljetten">>,
       <<"uncounted_", "meegenomen stembiljetten">>,
       <<"uncounted_", "meer getelde stembiljetten">>,
       <<"uncounted_", "minder getelde stembiljetten">>,
       <<"uncounted_", "te veel uitgereikte stembiljetten">>,
       <<"uncounted_", "te weinig uitgereikte stembiljetten">>,
       <<"uncounted_", "toegelaten kiezers">> >>

InSeq(x, seq) == \E i \in 1..Len(seq) : seq[i] = x

\* [c for c in seq if c in allowed]
RECURSIVE SelectIn(_, _)
SelectIn(seq, allowed) ==
    IF seq = <<>> THEN <<>>
    ELSE IF InSeq(Head(seq), allowed) THEN <<Head(seq)>> \o SelectIn(Tail(seq), allowed)
         ELSE SelectIn(Tail(seq), allowed)

\* [c for c in seq if c not in banned]
RECURSIVE SelectNotIn(_, _)
SelectNotIn(seq, banned) ==
    IF seq = <<>> THEN <<>>
    ELSE IF InSeq(Head(seq), banned) THEN SelectNotIn(Tail(seq), banned)
         ELSE <<Head(seq)>> \o SelectNotIn(Tail(seq), banned)

\* the columns of pd.DataFrame(rows): the rows' keys, each where it first appears
AddColumns(before, keys) == before \o SelectNotIn(keys, before)

RECURSIVE DataFrameColumns(_)
DataFrameColumns(rs) ==
    IF rs = <<>> THEN <<>>
    ELSE AddColumns(DataFrameColumns(SubSeq(rs, 1, Len(rs) - 1)), Keys(rs[Len(rs)]))

NaN == [t |-> "NaN"]

\* a table's rows over the given columns: a cell a row lacks is NaN
Cells(rs, columns) ==
    [i \in 1..Len(rs) |->
        [j \in 1..Len(columns) |->
            IF HasKey(rs[i], columns[j]) THEN Lookup(rs[i], columns[j]) ELSE NaN]]

Table(rs, columns) == [columns |-> columns, cells |-> Cells(rs, columns)]

\* pd.DataFrame(rows)
DataFrame(rs) == Table(rs, DataFrameColumns(rs))

\* the canonical columns followed by all columns, the canonical ones again
WithOthersUnfiltered(first, columns) == first \o columns

\* line 267: columns = first_cols + [c for c in df.columns if c not in first_cols]
WithOthers(first, columns) == first \o SelectNotIn(columns, first)

\* lines 266-267: the canonical columns the table has, then its other columns
ReorderedColumns(columns) == WithOthers(SelectIn(first_cols, columns), columns)

\* df[columns]
SelectColumns(df, columns) ==
    [columns |-> columns,
     cells |-> [i \in 1..Len(df.cells) |->
                  [j \in 1..Len(columns) |->
                      df.cells[i][CHOOSE c \in 1..Len(df.columns) :
                                     df.columns[c] = columns[j]]]]]

\* line 268: df[columns]
Reordered(df) == SelectColumns(df, ReorderedColumns(df.columns))

\* lines 237-268: the aggregate table of one document
AggregateTable(rows_aggregates) == Reordered(DataFrame(rows_aggregates))

\* lines 230-268: unpack what parse_election_data returned and store the tables
StoreTables(d, name, parsed, percand) ==
    CASE ~parsed.ok -> parsed
      [] parsed.v.t # "tuple" -> Raise("ValueError")
      [] OTHER ->
            Ok(DictSet(IF percand
                       THEN DictSet(d, name \o <<"_per_candidate">>,
                                    DataFrame(parsed.v.rows_per_candidate))
                       ELSE d,
                       name \o <<"_aggregate">>,
                       AggregateTable(parsed.v.rows_aggregates)))

\* one pass of `for path in paths` (lines 228-268) on the dictionary d:
\* Ok(the dictionary after it) or a Raise
ProcessFile(d, path, percand) ==
    StoreTables(d, path.stem, ParseElectionData(ReadEml(path), percand), percand)

---------------------------------------------------------------------------
(* process_files on a batch of files *)

MaxFiles == 2

GoodDoc == MkCount(PlainHeader, <<PlainStation, CandStation>>)
NoUnitsDoc == MkCount(PlainHeader, <<>>)
MalformedDoc == MkCount([PlainHeader EXCEPT !.name = Absent], <<PlainStation>>)
BareDoc == MkCount(PlainHeader, <<PlainStation, BareStation>>)
WideDoc ==
    MkCount(PlainHeader,
            << MkStation("7", Label2, "100", "98", <<Blanco, Overig>>,
                         <<Kiezers, Stempassen>>, <<PartyNull, PartyB>>),
               PlainStation >>)

\* what a file holds: whether it decodes, and its tree
FileContents ==
    {[decodes |-> TRUE, tree |-> doc] :
        doc \in {GoodDoc, NoUnitsDoc, MalformedDoc, BareDoc, WideDoc}}
    \cup {[decodes |-> FALSE, tree |-> None]}

StemOf(i) == <<"Telling_GR2018_", CASE i = 1 -> "a" [] i = 2 -> "b" [] i = 3 -> "c"
                                    [] OTHER -> "d">>

\* the batches source.glob('**/Telling*_*.xml') may find
Batches ==
    UNION {{[i \in 1..n |-> [stem |-> StemOf(i), kieskring |-> kk[i],
                             decodes |-> fc[i].decodes, tree |-> fc[i].tree]] :
              kk \in [1..n -> BOOLEAN], fc \in [1..n -> FileContents]} :
           n \in 1..MaxFiles}

Init ==
    /\ paths \in Batches
    /\ per_candidate \in BOOLEAN
    /\ pf_i = 1 /\ pf_pc = "loop" /\ pf_exc = "" /\ dfs = <<>>
    /\ data = None /\ result = Pending
    /\ cl_paths = <<>> /\ cl_i = 1 /\ cl_pc = Idle /\ cl_exc = "" /\ rows = <<>>

\* one pass of the loop of process_files
ProcessFilesStep ==
    /\ pf_pc = "loop"
    /\ pf_i <= Len(NotKieskring(paths))
    /\ \E r \in {ProcessFile(dfs, NotKieskring(paths)[pf_i], per_candidate)} :
           IF r.ok
           THEN /\ dfs' = r.v
                /\ pf_i' = pf_i + 1
                /\ UNCHANGED <<pf_pc, pf_exc>>
           ELSE /\ pf_pc' = "raised"
                /\ pf_exc' = r.exc
                /\ UNCHANGED <<dfs, pf_i>>
    /\ UNCHANGED <<data, per_candidate, result, paths,
                   cl_paths, cl_i, cl_pc, cl_exc, rows>>

\* line 269: return dfs
ProcessFilesReturn ==
    /\ pf_pc = "loop"
    /\ pf_i > Len(NotKieskring(paths))
    /\ pf_pc' = "returned"
    /\ UNCHANGED <<data, per_candidate, result, paths, pf_i, pf_exc, dfs,
                   cl_paths, cl_i, cl_pc, cl_exc, rows>>

Next == ProcessFilesStep \/ ProcessFilesReturn

Spec == Init /\ [][Next]_vars

---------------------------------------------------------------------------
(* parse_candidates *)

\* key.startswith('ns'): a key that starts with 'ns' is tokenised
\* <<"ns", the character after it, the rest>>
StartsWithNs(key) == key # <<>> /\ key[1] = "ns"

\* lines 329-332: nr after scanning the keys of the name block, nr0 before
RECURSIVE ScanPrefix(_, _)
ScanPrefix(keys, nr0) ==
    IF keys = <<>> THEN nr0
    ELSE IF StartsWithNs(Head(keys)) THEN S(<<Head(keys)[2]>>)
         ELSE ScanPrefix(Tail(keys), nr0)

\* 'ns{}:Name'.format(nr)
Prefixed(nr, name) == <<"ns">> \o nr.s \o <<name>>

\* the keys 'ns{nr}:' + names[1], 'ns{nr}:' + names[2], ...
RECURSIVE PrefixedPath(_, _)
PrefixedPath(nr, names) ==
    IF names = <<>> THEN <<>>
    ELSE <<Prefixed(nr, Head(names))>> \o PrefixedPath(nr, Tail(names))

\* try: candidate[first]['ns{nr}:' + names[1]]...[last]  except excs: None;
\* formatting a key raises UnboundLocalError while nr is unbound
PrefixedField(candidate, nr, first, names, last, excs) ==
    IF nr = Unbound THEN Raise("UnboundLocalError")
    ELSE Catch(GetPath(candidate, <<K(first)>> \o PrefixedPath(nr, names) \o last),
               excs, None)

\* lines 369-388: the record of one candidate; h holds the fields of the
\* document's header, f the candidate's own
RosterRow(h, party_name, party_id, f) ==
    << <<K("election_identifier"), h.election_identifier>>,
       <<K("election_id"), h.election_id>>,
       <<K("election_name"), h.election_name>>,
       <<K("election_date"), h.election_date>>,
       <<K("nomination_date"), h.nomination_date>>,
       <<K("election_domain_id"), h.election_domain_id>>,
       <<K("election_domain_name"), h.election_domain_name>>,
       <<K("contest_name"), h.contest_name>>,
       <<K("party_name"), party_name>>,
       <<K("party_id"), party_id>>,
       <<K("candidate_identifier"), f.identifier>>,
       <<K("first_name"), f.first_name>>,
       <<K("last_name"), f.last_name>>,
       <<K("initials"), f.initials>>,
       <<K("prefix"), f.prefix>>,
       <<K("gender"), f.gender>>,
       <<K("address"), f.address>> >>

\* lines 333-388, with the name prefix nr settled: st is [rows, nr, exc]
CandidateFields(st, candidate, identifier, nr, h, party_name, party_id) ==
    LET both == {"TypeError", "KeyError"}
        first_name == PrefixedField(candidate, nr, "CandidateFullName",
                                    <<":PersonName", ":FirstName">>, <<>>, both)
        last_name == PrefixedField(candidate, nr, "CandidateFullName",
                                   <<":PersonName", ":LastName">>, <<>>,
                                   {"TypeError"})
        initials == PrefixedField(candidate, nr, "CandidateFullName",
                                  <<":PersonName", ":NameLine">>, <<K("#text")>>,
                                  {"TypeError"})
        prefix == PrefixedField(candidate, nr, "CandidateFullName",
                                <<":PersonName", ":NamePrefix">>, <<>>, both)
        gender == Catch(GetItem(candidate, K("Gender")), both, None)
        address == PrefixedField(candidate, nr, "QualifyingAddress",
                                 <<":Locality", ":LocalityName">>, <<>>, both)
    IN  CASE ~first_name.ok -> [st EXCEPT !.nr = nr, !.exc = first_name.exc]
          [] ~last_name.ok -> [st EXCEPT !.nr = nr, !.exc = last_name.exc]
          [] ~initials.ok -> [st EXCEPT !.nr = nr, !.exc = initials.exc]
          [] ~prefix.ok -> [st EXCEPT !.nr = nr, !.exc = prefix.exc]
          [] ~gender.ok -> [st EXCEPT !.nr = nr, !.exc = gender.exc]
          [] ~address.ok -> [st EXCEPT !.nr = nr, !.exc = address.exc]
          [] OTHER ->
                [st EXCEPT
                    !.nr = nr,
                    !.rows = Append(st.rows,
                                    RosterRow(h, party_name, party_id,
                                              [identifier |-> identifier,
                                               first_name |-> first_name.v,
                                               last_name |-> last_name.v,
                                               initials |-> initials.v,
                                               prefix |-> prefix.v,
                                               gender |-> gender.v,
                                               address |-> address.v]))]

\* one pass of `for candidate in party_candidates` (lines 323-388)
CandidateBody(st, candidate, h, party_name, party_id) ==
    LET identifier == Catch(GetPath(candidate, <<K("CandidateIdentifier"), K("@Id")>>),
                            {"TypeError"}, None)
        block == GetItem(candidate, K("CandidateFullName"))
    IN  CASE ~identifier.ok -> Failed(st, identifier.exc)
          [] ~IsDict(candidate) -> st
          [] ~block.ok -> Failed(st, block.exc)
          [] ~IsDict(block.v) -> Failed(st, "AttributeError")
          [] OTHER ->
                CandidateFields(st, candidate, identifier.v,
                                ScanPrefix(Keys(block.v.kv), st.nr),
                                h, party_name, party_id)

RECURSIVE CandidateLoop(_, _, _, _, _)
CandidateLoop(st, candidates, h, party_name, party_id) ==
    IF candidates = <<>> \/ st.exc # "" THEN st
    ELSE CandidateLoop(CandidateBody(st, Head(candidates), h, party_name, party_id),
                       Tail(candidates), h, party_name, party_id)

\* one pass of `for party in parties` (lines 319-388)
PartyBody(st, party, h) ==
    LET party_name == GetPath(party, <<K("AffiliationIdentifier"), K("RegisteredName")>>)
        party_id == GetPath(party, <<K("AffiliationIdentifier"), K("@Id")>>)
        party_candidates == GetItem(party, K("Candidate"))
        candidates == Iter(party_candidates.v)
    IN  CASE ~party_name.ok -> Failed(st, party_name.exc)
          [] ~party_id.ok -> Failed(st, party_id.exc)
          [] ~party_candidates.ok -> Failed(st, party_candidates.exc)
          [] ~candidates.ok -> Failed(st, candidates.exc)
          [] OTHER -> CandidateLoop(st, candidates.v, h, party_name.v, party_id.v)

RECURSIVE PartyLoop(_, _, _)
PartyLoop(st, parties, h) ==
    IF parties = <<>> \/ st.exc # "" THEN st
    ELSE PartyLoop(PartyBody(st, Head(parties), h), Tail(parties), h)

\* try: d[first]...  except KeyError: d[second]...
OrElse(first, second) ==
    IF ~first.ok /\ first.exc = "KeyError" THEN second ELSE first

\* lines 283-317: what parse_candidates reads before the parties:
\* Ok(the header fields and the value of election['Contest']['Affiliation'])
RosterHeader(dat) ==
    LET issue_date == GetPath(dat, <<K("EML"), K("IssueDate")>>)
        election == GetPath(dat, <<K("EML"), K("CandidateList"), K("Election")>>)
        ei == GetItem(election.v, K("ElectionIdentifier"))
        election_id == GetItem(ei.v, K("@Id"))
        election_name == GetItem(ei.v, K("ElectionName"))
        election_date == OrElse(GetItem(ei.v, K("ns6:ElectionDate")),
                                GetItem(ei.v, K("kr:ElectionDate")))
        nomination_date == OrElse(GetItem(ei.v, K("ns6:NominationDate")),
                                  GetItem(ei.v, K("kr:NominationDate")))
        election_domain_id ==
            OrElse(GetPath(ei.v, <<K("ns6:ElectionDomain"), K("@Id")>>),
                   GetPath(ei.v, <<K("kr:ElectionDomain"), K("@Id")>>))
        election_domain_name ==
            OrElse(GetPath(ei.v, <<K("ns6:ElectionDomain"), K("#text")>>),
                   GetPath(ei.v, <<K("kr:ElectionDomain"), K("#text")>>))
        contest_name ==
            Catch(GetPath(election.v, <<K("Contest"), K("ContestIdentifier"),
                                        K("ContestName")>>),
                  {"KeyError"}, None)
        parties == GetPath(election.v, <<K("Contest"), K("Affiliation")>>)
    IN  CASE ~issue_date.ok -> issue_date
          [] ~election.ok -> election
          [] ~ei.ok -> ei
          [] ~election_id.ok -> election_id
          [] ~election_name.ok -> election_name
          [] ~election_date.ok -> election_date
          [] ~nomination_date.ok -> nomination_date
          [] ~election_domain_id.ok -> election_domain_id
          [] ~election_domain_name.ok -> election_domain_name
          [] ~contest_name.ok -> contest_name
          [] ~parties.ok -> parties
          [] OTHER ->
                Ok([election_identifier |-> ei.v,
                    election_id |-> election_id.v,
                    election_name |-> election_name.v,
                    election_date |-> election_date.v,
                    nomination_date |-> nomination_date.v,
                    election_domain_id |-> election_domain_id.v,
                    election_domain_name |-> election_domain_name.v,
                    contest_name |-> contest_name.v,
                    parties |-> parties.v])

\* lines 317-390, given the header h (Ok or a Raise) and the list rows0
RosterParties(h, parties, rows0) ==
    CASE ~h.ok -> [rows |-> rows0, nr |-> Unbound, exc |-> h.exc]
      [] ~parties.ok -> [rows |-> rows0, nr |-> Unbound, exc |-> parties.exc]
      [] OTHER -> PartyLoop([rows |-> rows0, nr |-> Unbound, exc |-> ""],
                            parties.v, h.v)

PartiesOf(h) == IF h.ok THEN Iter(h.v.parties) ELSE h

\* a call that starts from an empty list instead of the list it was given
RosterFromFresh(h, rows0) == RosterParties(h, PartiesOf(h), <<>>)

RosterFrom(h, rows0) == RosterParties(h, PartiesOf(h), rows0)

\* parse_candidates(data, rows): [rows, nr, exc], where rows is the list
\* after the call (the call appends to it in place, also when it raises) and
\* exc is the exception that left the call, "" when it returned rows
ParseCandidates(dat, rows0) == RosterFrom(RosterHeader(dat), rows0)

---------------------------------------------------------------------------
(* create_candidate_list on a batch of candidate lists *)

MaxRosterFiles == 2

\* the key of a name field: 'ns<nr>:Name', or 'xnl:Name' when nr is ""
NameKey(nr, name) == IF nr = "" THEN <<"xnl", name>> ELSE <<"ns", nr, name>>

\* an element with these child elements: None when it has none
Element(kv) == IF kv = <<>> THEN None ELSE D(kv)

BioFields == {"first", "last", "initials", "prefix", "gender", "address"}

\* a candidate whose name block is tagged nr and whose address is tagged
\* anr, with the biographical fields `has`
MkCandidate(id, nr, anr, has) ==
    D(<< <<K("CandidateIdentifier"), D(<< <<K("@Id"), Str(id)>> >>)>>,
         <<K("CandidateFullName"),
           D(<< <<NameKey(nr, ":PersonName"),
                  Element((IF "initials" \in has
                           THEN << <<NameKey(nr, ":NameLine"),
                                     D(<< <<K("@NameType"), Str("Initials")>>,
                                          <<K("#text"), Str("J.")>> >>)>> >>
                           ELSE <<>>)
                          \o (IF "first" \in has
                              THEN << <<NameKey(nr, ":FirstName"), Str("Jan")>> >>
                              ELSE <<>>)
                          \o (IF "prefix" \in has
                              THEN << <<NameKey(nr, ":NamePrefix"), Str("de")>> >>
                              ELSE <<>>)
                          \o (IF "last" \in has
                              THEN << <<NameKey(nr, ":LastName"), Str("Vries")>> >>
                              ELSE <<>>))>> >>)>> >>
      \o (IF "gender" \in has THEN << <<K("Gender"), Str("male")>> >> ELSE <<>>)
      \o (IF "address" \in has
          THEN << <<K("QualifyingAddress"),
                    D(<< <<NameKey(anr, ":Locality"),
                           D(<< <<NameKey(anr, ":LocalityName"),
                                  Str("Amsterdam")>> >>)>> >>)>> >>
          ELSE <<>>))

MkParty(name, id, candidates) ==
    D(<< <<K("AffiliationIdentifier"),
           D(<< <<K("@Id"), Str(id)>>, <<K("RegisteredName"), Str(name)>> >>)>> >>
      \o Field("Candidate", candidates))

\* a candidate list (Kandidatenlijsten_*.xml) whose election identifier
\* tags its date, nomination date and domain with the family "ns6" or "kr"
MkCandidateList(family, parties) ==
    D(<< <<K("EML"),
           D(<< <<K("IssueDate"), Str("2018-02-05")>>,
                <<K("CandidateList"),
                  D(<< <<K("Election"),
                         D(<< <<K("ElectionIdentifier"),
                                D(<< <<K("@Id"), Str("GR2018")>>,
                                     <<K("ElectionName"), Str("Gemeenteraad 2018")>>,
                                     <<IF family = "ns6" THEN K("ns6:ElectionDate")
                                       ELSE K("kr:ElectionDate"),
                                       Str("2018-03-21")>>,
                                     <<IF family = "ns6" THEN K("ns6:NominationDate")
                                       ELSE K("kr:NominationDate"),
                                       Str("2018-02-05")>>,
                                     <<IF family = "ns6" THEN K("ns6:ElectionDomain")
                                       ELSE K("kr:ElectionDomain"),
                                       D(<< <<K("@Id"), Str("0363")>>,
                                            <<K("#text"), Str("Amsterdam")>> >>)>>
                                   >>)>>,
                              <<K("Contest"),
                                D(<< <<K("ContestIdentifier"),
                                       D(<< <<K("@Id"), Str("geen")>> >>)>> >>
                                  \o Field("Affiliation", parties))>> >>)>> >>)>> >>)>> >>)

FullCandidate == MkCandidate("1", "6", "6", BioFields)
OtherPrefixCandidate == MkCandidate("2", "2", "2", BioFields)
NoPrefixCandidate == MkCandidate("3", "", "6", BioFields)
BareCandidate == S(<<"Jan de Vries">>)

Candidates ==
    {MkCandidate("5", "6", "6", has) : has \in SUBSET BioFields}
    \cup {FullCandidate, OtherPrefixCandidate, NoPrefixCandidate, BareCandidate,
          MkCandidate("4", "", "", BioFields)}

FewCandidates == {FullCandidate, OtherPrefixCandidate, NoPrefixCandidate}

\* a party's candidates: one of Candidates, alone or beside one of FewCandidates
CandidateSeqs ==
    {<<c>> : c \in Candidates}
    \cup {<<c, f>> : c \in Candidates, f \in FewCandidates}
    \cup {<<f, c>> : c \in Candidates, f \in FewCandidates}

FullParty == MkParty("PartyB", "2", <<FullCandidate, OtherPrefixCandidate>>)

\* a list's parties: one party of CandidateSeqs, alone or beside FullParty
PartySeqs ==
    {<<MkParty("PartyA", "1", cs)>> : cs \in CandidateSeqs}
    \cup {<<MkParty("PartyA", "1", cs), FullParty>> : cs \in CandidateSeqs}
    \cup {<<FullParty, MkParty("PartyA", "1", cs)>> : cs \in CandidateSeqs}

CandidateLists ==
    {MkCandidateList(family, ps) : family \in {"ns6", "kr"}, ps \in PartySeqs}

FullList == MkCandidateList("ns6", <<FullParty, FullParty>>)
NoPrefixList ==
    MkCandidateList("kr", << FullParty,
                             MkParty("PartyA", "1",
                                     <<NoPrefixCandidate, FullCandidate>>) >>)

FewRosterFiles ==
    {[decodes |-> TRUE, tree |-> FullList],
     [decodes |-> TRUE, tree |-> NoPrefixList],
     [decodes |-> FALSE, tree |-> None]}

\* the batches source.glob('**/Kandidatenlijsten_*.xml') may find
RosterBatches ==
    {<<[decodes |-> TRUE, tree |-> d]>> : d \in CandidateLists}
    \cup UNION {[1..n -> FewRosterFiles] : n \in 1..MaxRosterFiles}

InitRoster ==
    /\ cl_paths \in RosterBatches
    /\ cl_i = 1 /\ cl_pc = "loop" /\ cl_exc = "" /\ rows = <<>>
    /\ data = None /\ per_candidate = TRUE /\ result = Pending
    /\ paths = <<>> /\ pf_i = 1 /\ pf_pc = Idle /\ pf_exc = "" /\ dfs = <<>>

\* one pass of the loop of create_candidate_list (lines 405-407)
CandidateListStep ==
    /\ cl_pc = "loop"
    /\ cl_i <= Len(cl_paths)
    /\ IF IsNull(ReadEml(cl_paths[cl_i]))
       THEN /\ cl_i' = cl_i + 1
            /\ UNCHANGED <<rows, cl_pc, cl_exc>>
       ELSE \E st \in {ParseCandidates(ReadEml(cl_paths[cl_i]), rows)} :
               /\ rows' = st.rows
               /\ cl_exc' = st.exc
               /\ cl_pc' = IF st.exc = "" THEN "loop" ELSE "raised"
               /\ cl_i' = IF st.exc = "" THEN cl_i + 1 ELSE cl_i
    /\ UNCHANGED <<data, per_candidate, result, paths, pf_i, pf_pc, pf_exc, dfs,
                   cl_paths>>

\* line 408: return pd.DataFrame(rows)
CandidateListReturn ==
    /\ cl_pc = "loop"
    /\ cl_i > Len(cl_paths)
    /\ cl_pc' = "returned"
    /\ UNCHANGED <<data, per_candidate, result, paths, pf_i, pf_pc, pf_exc, dfs,
                   cl_paths, cl_i, cl_exc, rows>>

NextRoster == CandidateListStep \/ CandidateListReturn

SpecRoster == InitRoster /\ [][NextRoster]_vars

---------------------------------------------------------------------------
(* What the claims read off a document and off a result *)

\* dict.get(k): None where the row has no key k
Get(row, k) == IF HasKey(row, k) THEN Lookup(row, k) ELSE None

Called == result # Pending
Returns == Called /\ result.ok /\ result.v.t = "tuple"

DocIdentifier(d) ==
    GetPath(d, <<K("EML"), K("Count"), K("Election"), K("ElectionIdentifier")>>)
DocContest(d) ==
    GetPath(d, <<K("EML"), K("Count"), K("Election"), K("Contests"), K("Contest")>>)

\* the document carries the identifier fields every vote count has
WellHeaded(d) ==
    /\ IsDict(d)
    /\ DocIdentifier(d).ok /\ DocContest(d).ok
    /\ \A k \in {"@Id", "ElectionName", "kr:ElectionDate"} :
          HasKey(DocIdentifier(d).v.kv, K(k))

HasUnits(d) == HasKey(DocContest(d).v.kv, K("ReportingUnitVotes"))

\* the reporting units of a document, a lone unit as a sequence of one
DocUnits(d) ==
    IF ~HasUnits(d) THEN <<>>
    ELSE LET u == Lookup(DocContest(d).v.kv, K("ReportingUnitVotes"))
         IN  IF IsList(u) THEN u.l ELSE <<u>>

\* the elements under key k of a unit, a lone element as a sequence of one
Elements(unit, k) ==
    IF ~IsDict(unit) \/ ~HasKey(unit.kv, K(k)) THEN <<>>
    ELSE LET e == Lookup(unit.kv, K(k)) IN IF IsList(e) THEN e.l ELSE <<e>>

IsPartyLevel(sel) == IsDict(sel) /\ HasKey(sel.kv, K("AffiliationIdentifier"))

HeaderKeys ==
    { K("election_id"), K("election_name"), K("election_domain_id"),
      K("election_domain_name"), K("election_date"), K("contest_name"),
      K("managing_authority") }

---------------------------------------------------------------------------
(* C3 *)

\* C3: a vote-count document whose contest has no ReportingUnitVotes yields
\* exactly one aggregate row, whose identity fields are the document's and
\* whose every other field outside the header (station_name, station_id and
\* any further station-level field) is None, and no per-candidate row.
C3_NoUnitsOneRow ==
    (Called /\ WellHeaded(data) /\ ~HasUnits(data)) =>
        /\ Returns
        /\ Len(result.v.rows_aggregates) = 1
        /\ result.v.rows_per_candidate = <<>>
        /\ LET row == result.v.rows_aggregates[1]
               ei == DocIdentifier(data).v
           IN  /\ Get(row, K("election_id")) = Lookup(ei.kv, K("@Id"))
               /\ Get(row, K("election_name")) = Lookup(ei.kv, K("ElectionName"))
               /\ Get(row, K("election_date")) = Lookup(ei.kv, K("kr:ElectionDate"))
               /\ \A k \in {K("election_domain_id"), K("election_domain_name")} :
                     HasKey(row, k)
               /\ HasKey(row, K("station_name")) /\ HasKey(row, K("station_id"))
               /\ \A i \in 1..Len(row) :
                     row[i][1] \notin HeaderKeys => row[i][2] = None

C3_Witness ==
    /\ Returns /\ WellHeaded(data) /\ ~HasUnits(data) /\ per_candidate
    /\ Len(result.v.rows_aggregates) = 1

---------------------------------------------------------------------------
(* C4 *)

\* the label is '<name> (postcode: <code>)'
IsPostcodeLabel(s) ==
    Len(s) = 5 /\ s[2] = " " /\ s[3] = "(postcode: " /\ s[5] = ")"
    /\ s[1] \notin {" ", "(postcode: ", ")"} /\ s[4] \notin {" ", "(postcode: ", ")"}

\* one reporting unit labelled '<name> (postcode: <code>)', one rejected
\* reason, party-level results only
IsScenarioA(d) ==
    /\ WellHeaded(d) /\ Len(DocUnits(d)) = 1
    /\ LET u == DocUnits(d)[1]
       IN  /\ IsDict(u)
           /\ IsPostcodeLabel(
                 GetPath(u, <<K("ReportingUnitIdentifier"), K("#text")>>).v.s)
           /\ Len(Elements(u, "RejectedVotes")) = 1
           /\ Len(Elements(u, "UncountedVotes")) = 0
           /\ Len(Elements(u, "Selection")) >= 2
           /\ \A i \in 1..Len(Elements(u, "Selection")) :
                 /\ IsPartyLevel(Elements(u, "Selection")[i])
                 /\ IsStr(GetPath(Elements(u, "Selection")[i],
                                  <<K("AffiliationIdentifier"),
                                    K("RegisteredName")>>).v)

\* C4: a document with one reporting unit labelled '<name> (postcode: <code>)',
\* cast and total_counted, exactly one rejected reason (R, v) and party-level
\* results yields exactly one aggregate row with station_name = name,
\* postcode = code, the document's cast and total_counted, rejected_<lower R> = v
\* and one column per party holding its votes.
C4_ScenarioA ==
    (Called /\ IsScenarioA(data)) =>
        /\ Returns
        /\ Len(result.v.rows_aggregates) = 1
        /\ LET row == result.v.rows_aggregates[1]
               u == DocUnits(data)[1]
               label == GetPath(u, <<K("ReportingUnitIdentifier"), K("#text")>>).v.s
               rej == Elements(u, "RejectedVotes")[1]
               sels == Elements(u, "Selection")
           IN  /\ Get(row, K("station_name")) = S(<<label[1]>>)
               /\ Get(row, K("postcode")) = S(<<label[4]>>)
               /\ Get(row, K("cast")) = Lookup(u.kv, K("Cast"))
               /\ Get(row, K("total_counted")) = Lookup(u.kv, K("TotalCounted"))
               /\ Get(row, <<"rejected_">>
                           \o Lower(Lookup(rej.kv, K("@ReasonCode"))).v.s)
                     = Lookup(rej.kv, K("#text"))
               /\ \A i \in 1..Len(sels) :
                     Get(row, GetPath(sels[i], <<K("AffiliationIdentifier"),
                                                  K("RegisteredName")>>).v.s)
                        = IntOf(Lookup(sels[i].kv, K("ValidVotes"))).v

---------------------------------------------------------------------------
(* C5 *)

\* every selection of the unit is a party-level total
AllPartyLevel(unit) ==
    /\ IsDict(unit)
    /\ \A i \in 1..Len(Elements(unit, "Selection")) :
          IsPartyLevel(Elements(unit, "Selection")[i])

UnitId(unit) == GetPath(unit, <<K("ReportingUnitIdentifier"), K("@Id")>>).v

\* C5: a reporting unit all of whose selections are party-level totals gets
\* no per-candidate row, also when per_candidate is True.
C5_NoCandidateRowWithoutBreakdown ==
    Returns =>
        \A u \in 1..Len(DocUnits(data)) :
            AllPartyLevel(DocUnits(data)[u]) =>
                \A r \in 1..Len(result.v.rows_per_candidate) :
                    Get(result.v.rows_per_candidate[r], K("station_id"))
                        # UnitId(DocUnits(data)[u])

C5_Witness ==
    /\ Returns /\ per_candidate
    /\ result.v.rows_per_candidate # <<>>
    /\ \E u \in 1..Len(DocUnits(data)) :
          /\ AllPartyLevel(DocUnits(data)[u])
          /\ Len(Elements(DocUnits(data)[u], "Selection")) >= 2

---------------------------------------------------------------------------
(* C6 *)

\* a bare-string unit among structured units that parse on their own
HasBareUnitAmongSound(d) ==
    /\ WellHeaded(d)
    /\ \E i \in 1..Len(DocUnits(d)) : IsStr(DocUnits(d)[i])
    /\ \E i \in 1..Len(DocUnits(d)) : IsDict(DocUnits(d)[i])
    /\ \A i \in 1..Len(DocUnits(d)) :
          IsDict(DocUnits(d)[i]) => DocUnits(d)[i] \in {PlainStation, CandStation}

\* C6: a reporting-unit entry that is a bare string is skipped without
\* failing the document: the call returns, with the aggregate rows of the
\* structured reporting units of the same document.
C6_BareUnitSkipped ==
    (Called /\ HasBareUnitAmongSound(data)) =>
        /\ Returns
        /\ \A i \in 1..Len(DocUnits(data)) :
              IsDict(DocUnits(data)[i]) =>
                 \E r \in 1..Len(result.v.rows_aggregates) :
                    Get(result.v.rows_aggregates[r], K("station_id"))
                       = UnitId(DocUnits(data)[i])

---------------------------------------------------------------------------
(* C9 *)

DocDomain(d) == Get(DocIdentifier(d).v.kv, K("kr:ElectionDomain"))

HasStrDomain(d) ==
    WellHeaded(d) /\ HasKey(DocIdentifier(d).v.kv, K("kr:ElectionDomain"))
    /\ IsStr(DocDomain(d))

DomainIs(row, id, name) ==
    /\ HasKey(row, K("election_domain_id")) /\ HasKey(row, K("election_domain_name"))
    /\ Lookup(row, K("election_domain_id")) = id
    /\ Lookup(row, K("election_domain_name")) = name

---------------------------------------------------------------------------
(* C1, C2 *)

\* the files process_files loops over
Files == NotKieskring(paths)

Finished == pf_pc \in {"returned", "raised"}

\* parse_election_data returns its tuple on the file's tree
ParsesWell(file) ==
    /\ file.decodes
    /\ ParseElectionData(file.tree, per_candidate).ok

\* the file's tree lacks a mandatory key of the election header
Malformed(file) == file.decodes /\ ~WellHeaded(file.tree)

AggregateKey(file) == file.stem \o <<"_aggregate">>

\* C1: when one document of the batch makes parse_election_data fail, the
\* batch does not abort: process_files returns, and the dictionary holds the
\* '<name>_aggregate' table of every other non-excluded document.
C1_BatchSurvivesMalformedDocument ==
    ( /\ Finished
      /\ \E i \in 1..Len(Files) :
            /\ Malformed(Files[i])
            /\ \A j \in 1..Len(Files) : j # i => ParsesWell(Files[j]) )
    => /\ pf_pc = "returned"
       /\ \A j \in 1..Len(Files) :
             ParsesWell(Files[j]) => HasKey(dfs, AggregateKey(Files[j]))

\* C2: when read_eml returns None for a document, process_files skips it: no
\* error reaches the caller and the tables of all other documents of the
\* batch are produced.
C2_BatchSurvivesUndecodableDocument ==
    ( /\ Finished
      /\ \E i \in 1..Len(Files) :
            /\ ~Files[i].decodes
            /\ \A j \in 1..Len(Files) : j # i => ParsesWell(Files[j]) )
    => /\ pf_pc = "returned"
       /\ \A j \in 1..Len(Files) :
             ParsesWell(Files[j]) => HasKey(dfs, AggregateKey(Files[j]))

---------------------------------------------------------------------------
(* C10 *)

IndexIn(x, seq) == CHOOSE i \in 1..Len(seq) : seq[i] = x

NoDuplicates(seq) == \A i, j \in 1..Len(seq) : seq[i] = seq[j] => i = j

IsPermutationOf(out, in) ==
    /\ Len(out) = Len(in)
    /\ NoDuplicates(out)
    /\ \A i \in 1..Len(in) : InSeq(in[i], out)

\* seq keeps the relative order its elements have in ref
OrderedAs(seq, ref) ==
    \A i, j \in 1..Len(seq) : i < j => IndexIn(seq[i], ref) < IndexIn(seq[j], ref)

\* the canonical columns lead, in the canonical order; the others follow, in
\* the order of in
CanonicalThenDiscovered(out, in) ==
    \E k \in 0..Len(out) :
        /\ \A i \in 1..k : InSeq(out[i], first_cols)
        /\ \A i \in (k+1)..Len(out) : ~InSeq(out[i], first_cols)
        /\ OrderedAs(SubSeq(out, 1, k), first_cols)
        /\ OrderedAs(SubSeq(out, k + 1, Len(out)), in)

\* the columns of the table pd.DataFrame builds from the file's aggregate rows
InputColumns(file) ==
    DataFrame(ParseElectionData(ReadEml(file), per_candidate).v.rows_aggregates).columns

\* C10: the columns of every aggregate table process_files builds are a
\* permutation of the columns of the table it was built from: the columns of
\* the canonical list first, in the list's order, then the remaining columns
\* in the order in which they were discovered.
C10_CanonicalColumnOrder ==
    \A j \in 1..Len(Files) :
        HasKey(dfs, AggregateKey(Files[j])) =>
            /\ IsPermutationOf(Lookup(dfs, AggregateKey(Files[j])).columns,
                               InputColumns(Files[j]))
            /\ CanonicalThenDiscovered(Lookup(dfs, AggregateKey(Files[j])).columns,
                                       InputColumns(Files[j]))

\* a table with party columns and canonical columns that were discovered in
\* another order than the canonical one
C10_Witness ==
    /\ pf_pc = "returned"
    /\ \E j \in 1..Len(Files) :
          /\ HasKey(dfs, AggregateKey(Files[j]))
          /\ Lookup(dfs, AggregateKey(Files[j])).columns # InputColumns(Files[j])
          /\ \E c \in 1..Len(InputColumns(Files[j])) :
                ~InSeq(InputColumns(Files[j])[c], first_cols)
          /\ InSeq(<<"uncounted_", "toegelaten kiezers">>, InputColumns(Files[j]))

---------------------------------------------------------------------------
(* Claims about the roster of candidates *)

RosterFinished == cl_pc \in {"returned", "raised"}

\* the parties of a candidate list that has several of them
ListParties(tree) ==
    LET a == GetPath(tree, <<K("EML"), K("CandidateList"), K("Election"),
                             K("Contest"), K("Affiliation")>>)
    IN  IF a.ok /\ IsList(a.v) THEN a.v.l ELSE <<>>

\* the candidate entries of a party that has several of them
PartyEntries(party) ==
    IF IsDict(party) /\ HasKey(party.kv, K("Candidate"))
                     /\ IsList(Lookup(party.kv, K("Candidate")))
    THEN Lookup(party.kv, K("Candidate")).l
    ELSE <<>>

\* every party of the list is an element among several, and so is every
\* candidate of every party
SeveralOfEach(tree) ==
    /\ ListParties(tree) # <<>>
    /\ \A p \in 1..Len(ListParties(tree)) : PartyEntries(ListParties(tree)[p]) # <<>>

RECURSIVE EntriesOfParties(_)
EntriesOfParties(parties) ==
    IF parties = <<>> THEN <<>>
    ELSE PartyEntries(Head(parties)) \o EntriesOfParties(Tail(parties))

\* the structured candidate entries of a batch, in the order of the documents
RECURSIVE StructuredEntries(_)
StructuredEntries(files) ==
    IF files = <<>> THEN <<>>
    ELSE SelectSeq(EntriesOfParties(ListParties(Head(files).tree)), IsDict)
         \o StructuredEntries(Tail(files))

NameBlock(c) == Get(c.kv, K("CandidateFullName"))

HasOwnPrefix(c) ==
    IsDict(NameBlock(c))
    /\ \E i \in 1..Len(NameBlock(c).kv) : StartsWithNs(NameBlock(c).kv[i][1])

\* the number after 'ns' in the first such key of the candidate's name block
OwnPrefix(c) ==
    LET kv == NameBlock(c).kv
        i == CHOOSE i \in 1..Len(kv) :
                 /\ StartsWithNs(kv[i][1])
                 /\ \A j \in 1..(i - 1) : ~StartsWithNs(kv[j][1])
    IN  S(<<kv[i][1][2]>>)

\* the value at c[p[1]][p[2]]..., None where the entry has no such element
ValueAt(c, p) == IF GetPath(c, p).ok THEN GetPath(c, p).v ELSE None

\* the prefixed field under the candidate's own prefix, None without one
OwnField(c, first, names, last) ==
    IF HasOwnPrefix(c)
    THEN ValueAt(c, <<K(first)>> \o PrefixedPath(OwnPrefix(c), names) \o last)
    ELSE None

\* the record carries the entry's present fields and None for the absent
RecordOf(row, c) ==
    /\ Get(row, K("first_name"))
         = OwnField(c, "CandidateFullName", <<":PersonName", ":FirstName">>, <<>>)
    /\ Get(row, K("last_name"))
         = OwnField(c, "CandidateFullName", <<":PersonName", ":LastName">>, <<>>)
    /\ Get(row, K("initials"))
         = OwnField(c, "CandidateFullName", <<":PersonName", ":NameLine">>,
                    <<K("#text")>>)
    /\ Get(row, K("prefix"))
         = OwnField(c, "CandidateFullName", <<":PersonName", ":NamePrefix">>, <<>>)
    /\ Get(row, K("address"))
         = OwnField(c, "QualifyingAddress", <<":Locality", ":LocalityName">>, <<>>)
    /\ Get(row, K("gender")) = Get(c.kv, K("Gender"))
    /\ Get(row, K("candidate_identifier"))
         = ValueAt(c, <<K("CandidateIdentifier"), K("@Id")>>)

\* one record for each structured entry of the batch, in order
OneRecordEach(entries) ==
    /\ cl_pc = "returned"
    /\ Len(rows) = Len(entries)
    /\ \A k \in 1..Len(entries) : k <= Len(rows) => RecordOf(rows[k], entries[k])

Decodable(files) ==
    \A i \in 1..Len(files) : files[i].decodes /\ SeveralOfEach(files[i].tree)

HasAllNames(c) ==
    \A name \in {":FirstName", ":LastName", ":NameLine", ":NamePrefix"} :
        GetPath(c, <<K("CandidateFullName"), Prefixed(OwnPrefix(c), ":PersonName"),
                     Prefixed(OwnPrefix(c), name)>>).ok

\* C7: when every structured candidate entry of the batch has a prefixed
\* name block, create_candidate_list returns one record for each of them,
\* whichever of first name, last name, initials, name prefix, gender and
\* address the entry lacks: an absent field is None in the record, a present
\* field carries its value, and the candidates after it are still processed.
C7_RecordWhicheverFieldsAbsent ==
    (/\ RosterFinished
     /\ Decodable(cl_paths)
     /\ \A k \in 1..Len(StructuredEntries(cl_paths)) :
           HasOwnPrefix(StructuredEntries(cl_paths)[k]))
    => OneRecordEach(StructuredEntries(cl_paths))

\* C8: a candidate whose name block has no key starting with 'ns' still has
\* its record emitted, with first_name, last_name, initials, prefix and
\* address None, wherever it stands among the candidates and documents; the
\* candidates that do have such a key (and all four name fields) have their
\* fields read under their own prefix.
C8_RecordWithoutPrefix ==
    (/\ RosterFinished
     /\ Decodable(cl_paths)
     /\ \A k \in 1..Len(StructuredEntries(cl_paths)) :
           HasOwnPrefix(StructuredEntries(cl_paths)[k])
               => HasAllNames(StructuredEntries(cl_paths)[k])
     /\ \E k \in 1..Len(StructuredEntries(cl_paths)) :
           ~HasOwnPrefix(StructuredEntries(cl_paths)[k]))
    => OneRecordEach(StructuredEntries(cl_paths))

---------------------------------------------------------------------------
(* C11 *)

IsPrefixOf(short, long) ==
    Len(short) <= Len(long) /\ SubSeq(long, 1, Len(short)) = short

\* <<party id, candidate identifier>> of a party's structured entries, in order
PairsOfParty(party) ==
    LET es == SelectSeq(PartyEntries(party), IsDict)
    IN  [k \in 1..Len(es) |->
            << ValueAt(party, <<K("AffiliationIdentifier"), K("@Id")>>),
               ValueAt(es[k], <<K("CandidateIdentifier"), K("@Id")>>) >>]

\* the same for the parties of a document: party order, then candidate order
RECURSIVE PairsOfParties(_)
PairsOfParties(parties) ==
    IF parties = <<>> THEN <<>>
    ELSE PairsOfParty(Head(parties)) \o PairsOfParties(Tail(parties))

\* <<party_id, candidate_identifier>> of the rows after the first n
PairsOfRows(rs, n) ==
    [k \in 1..(Len(rs) - n) |->
        << Get(rs[n + k], K("party_id")),
           Get(rs[n + k], K("candidate_identifier")) >>]

\* what one step does to the accumulator, given the document it read
AppendsInOrder(before, after, returned, tree) ==
    /\ IsPrefixOf(before, after)
    /\ IsPrefixOf(PairsOfRows(after, Len(before)),
                  PairsOfParties(ListParties(tree)))
    /\ returned => Len(after) - Len(before) = Len(PairsOfParties(ListParties(tree)))

\* C11: every step of create_candidate_list leaves the rows that were in the
\* list as a prefix of the list after it, unchanged and in the same order,
\* and the rows a call of parse_candidates adds are those of the document's
\* candidates in party order, then candidate order.
C11_AppendOnlyInOrder ==
    [][ /\ IsPrefixOf(rows, rows')
        /\ (cl_pc = "loop" /\ cl_i <= Len(cl_paths)) =>
              AppendsInOrder(rows, rows', cl_pc' = "loop",
                             ReadEml(cl_paths[cl_i])) ]_vars

\* two documents were parsed, and the second added rows to those of the first
C11_Witness ==
    /\ cl_pc = "returned" /\ Len(cl_paths) >= 2
    /\ cl_paths[1].decodes /\ cl_paths[2].decodes
    /\ Len(rows) > Len(PairsOfParties(ListParties(cl_paths[1].tree)))
    /\ Len(PairsOfParties(ListParties(cl_paths[1].tree))) > 0

---------------------------------------------------------------------------
(* C12 *)

\* <<party_name, party_id>> of a party-level selection; the name of a party
\* without a registered name is its id
PartyOf(sel) ==
    LET name == ValueAt(sel, <<K("AffiliationIdentifier"), K("RegisteredName")>>)
        id == ValueAt(sel, <<K("AffiliationIdentifier"), K("@Id")>>)
    IN  << IF IsNull(name) THEN id ELSE name, id >>

\* for each candidate selection of sels, in order, the party of the nearest
\* party-level selection before it; `last` where there is none
RECURSIVE CandidateParties(_, _)
CandidateParties(sels, last) ==
    IF sels = <<>> THEN <<>>
    ELSE IF IsPartyLevel(Head(sels))
         THEN CandidateParties(Tail(sels), PartyOf(Head(sels)))
         ELSE <<last>> \o CandidateParties(Tail(sels), last)

\* the same over the units of a document, each unit starting without a party
RECURSIVE PartiesWithinUnits(_)
PartiesWithinUnits(units) ==
    IF units = <<>> THEN <<>>
    ELSE CandidateParties(Elements(Head(units), "Selection"), Unbound)
         \o PartiesWithinUnits(Tail(units))

RowsCarry(rs, parties) ==
    /\ Len(rs) = Len(parties)
    /\ \A k \in 1..Len(parties) :
          /\ parties[k] # Unbound
          /\ k <= Len(rs) =>
                << Get(rs[k], K("party_name")), Get(rs[k], K("party_id")) >>
                   = parties[k]

\* C12: with per_candidate True, every per-candidate row returned carries the
\* party_name and party_id of the nearest party-level selection that precedes
\* its candidate selection within the same reporting unit; no row takes its
\* party from an earlier reporting unit or has no party.
C12_PartyOfSameUnit ==
    (Returns /\ per_candidate) =>
        RowsCarry(result.v.rows_per_candidate, PartiesWithinUnits(DocUnits(data)))

=============================================================================
